---- MODULE Spec2Model ----
(***************************************************************************)
(* Model of Core::TimingManager and Core::TimingManager::Timer             *)
(* (src/src/core/core_timing.cpp): the per-core virtual clock, the         *)
(* min-heap of pending events, the cross-thread queue and the manager      *)
(* that routes ScheduleEvent / UnscheduleEvent / RemoveEvent.              *)
(***************************************************************************)
EXTENDS Integers, Sequences, FiniteSets, TLC

\* ------------------------------------------------------------------ sizes
\* num_cores handed to the constructor; one owning thread per core
NumCores == 2
\* the configured maximum slice constant (scaled down)
MAX_SLICE_LENGTH == 2
\* calls made after initialisation in one run of the manager's callers
MaxCalls == 4
\* calls made after initialisation in one run of a single core's CPU loop
MaxTimerCalls == 6
\* events scheduled, and cycles consumed, in one schedule-then-run scenario
MaxOrderEvents == 4
MaxOrderTime == 5
MaxLiveEvents == 2
MaxLiveTime == 4

Cores == 0 .. (NumCores - 1)
\* std::numeric_limits<std::size_t>::max(): "the current timer"
NoCore == -1
\* a core id for which the constructor made no Timer
BadCore == NumCores
\* event type names handed to RegisterEvent
Names == {1, 2}
\* a null TimingEventType pointer
NullType == 0
\* userdata values
Userdata == {7, 8}
\* the (type, userdata) pairs the callers schedule
Kinds == {<<1, 7>>, <<1, 8>>, <<2, 7>>}
\* cycles_into_future arguments: of the manager's callers, of a CPU loop
Cycles == {-1, 2}
TimerCycles == {-1, 1, 3}
\* ticks arguments of AddTicks
Ticks == {1, 2}
\* max_slice_length arguments of Advance
SliceArgs == {1, MAX_SLICE_LENGTH}

\* ------------------------------------------------------------- the heap
\* Event::operator> with the tie-break the wrong way round
GreaterNewestFirst(a, b) ==
    \/ a.time > b.time
    \/ a.time = b.time /\ a.fifo_order < b.fifo_order

\* Event::operator> : std::tie(time, fifo_order) > std::tie(right...)
Greater(a, b) ==
    \/ a.time > b.time
    \/ a.time = b.time /\ a.fifo_order > b.fifo_order

\* Event::operator<
Less(a, b) ==
    \/ a.time < b.time
    \/ a.time = b.time /\ a.fifo_order < b.fifo_order

\* Sequences are 1-based; the heap algorithms below use the 0-based indices
\* of the vector: element i of the vector is q[i + 1].
At(q, i) == q[i + 1]
Put(q, i, v) == [q EXCEPT ![i + 1] = v]

\* std::__push_heap with std::greater<>: move the hole up while the parent is
\* greater than the value, then store the value.
RECURSIVE SiftUp(_, _, _, _)
SiftUp(q, hole, top, value) ==
    LET parent == (hole - 1) \div 2
    IN  IF hole > top /\ Greater(At(q, parent), value)
        THEN SiftUp(Put(q, hole, At(q, parent)), parent, top, value)
        ELSE Put(q, hole, value)

\* emplace_back without the std::push_heap that follows it
PushHeapNoSift(q, ev) == Append(q, ev)

\* emplace_back + std::push_heap(begin, end, std::greater<>())
PushHeap(q, ev) == SiftUp(Append(q, ev), Len(q), 0, ev)

\* the first loop of std::__adjust_heap: walk the hole down to a leaf along
\* the smaller child
RECURSIVE HoleDown(_, _, _, _)
HoleDown(q, hole, child, len) ==
    IF child < (len - 1) \div 2
    THEN LET r == 2 * (child + 1)
             c == IF Greater(At(q, r), At(q, r - 1)) THEN r - 1 ELSE r
         IN  HoleDown(Put(q, hole, At(q, c)), c, c, len)
    ELSE <<q, hole, child>>

\* std::__adjust_heap(first, holeIndex, len, value, greater)
AdjustHeap(q, holeIndex, len, value) ==
    LET d  == HoleDown(q, holeIndex, holeIndex, len)
        q1 == d[1]
        h1 == d[2]
        c1 == d[3]
        lone == (len % 2 = 0) /\ (c1 = (len - 2) \div 2)
        q2 == IF lone THEN Put(q1, h1, At(q1, 2 * (c1 + 1) - 1)) ELSE q1
        h2 == IF lone THEN 2 * (c1 + 1) - 1 ELSE h1
    IN  SiftUp(q2, h2, holeIndex, value)

\* std::pop_heap(begin, end, std::greater<>()) followed by pop_back()
PopHeap(q) ==
    LET n == Len(q)
    IN  IF n <= 1 THEN <<>>
        ELSE AdjustHeap(SubSeq(q, 1, n - 1), 0, n - 1, q[n])

\* std::make_heap(begin, end, std::greater<>())
RECURSIVE MakeHeapFrom(_, _)
MakeHeapFrom(q, parent) ==
    LET q1 == AdjustHeap(q, parent, Len(q), At(q, parent))
    IN  IF parent = 0 THEN q1 ELSE MakeHeapFrom(q1, parent - 1)

MakeHeap(q) == IF Len(q) < 2 THEN q ELSE MakeHeapFrom(q, (Len(q) - 2) \div 2)

\* the predicates of the two std::remove_if calls: UnscheduleEvent compares
\* type and userdata (both = TRUE), RemoveEvent the type alone
Matches(e, type, userdata, both) ==
    e.type = type /\ (both => e.userdata = userdata)

\* std::remove_if + erase + make_heap, as UnscheduleEvent and RemoveEvent
\* use them: the survivors keep their order; the heap is rebuilt only when
\* something was removed.
EraseIf(q, type, userdata, both) ==
    LET keep == SelectSeq(q, LAMBDA e : ~Matches(e, type, userdata, both))
    IN  IF Len(keep) # Len(q) THEN MakeHeap(keep) ELSE q


\* ---------------------------------------------------------------- state
VARIABLES
    timers,         \* TimingManager::timers : core id -> Timer
    current_timer,  \* TimingManager::current_timer, as the core id of the Timer
    event_types,    \* TimingManager::event_types, the registered names
    pc,             \* per owning thread: "run" outside Advance, "loop" inside
                    \* Advance before the loop test, "cb" inside a callback
    adv,            \* per core: max_slice_length of the running Advance, else 0
    fired,          \* per core: log of the callbacks invoked, in order
    outcome,        \* "ok", or the ASSERT that ended the program
    removal,        \* the last UnscheduleEvent/RemoveEvent call that met a match
    ncalls,         \* number of calls made since initialisation
    mode            \* phase of a schedule-then-run scenario, "wide" where
                    \* quantities are in units of 2^30 cycles, else "any"

vars == <<timers, current_timer, event_types, pc, adv, fired, outcome, removal,
          ncalls, mode>>

\* Event{time, fifo_order, userdata, type}
Event(time, fifo_order, userdata, type) ==
    [time |-> time, fifo_order |-> fifo_order, userdata |-> userdata, type |-> type]

\* a Timer as its constructor leaves it (member initialisers of class Timer)
NewTimer ==
    [event_queue    |-> <<>>,
     event_fifo_id  |-> 0,
     ts_queue       |-> <<>>,
     is_timer_sane  |-> TRUE,
     slice_length   |-> MAX_SLICE_LENGTH,
     downcount      |-> MAX_SLICE_LENGTH,
     executed_ticks |-> 0,
     idled_cycles   |-> 0]

NoAdvance == 0

\* removal: the call, its arguments, how many events matched in the heaps and
\* in the cross-thread queues when it was made, and the number of the call
Removal(op, type, ud, heap, fifo, call) ==
    [op |-> op, type |-> type, ud |-> ud, heap |-> heap, fifo |-> fifo, call |-> call]

\* TimingManager::TimingManager(num_cores)
Init ==
    /\ timers = [c \in Cores |-> NewTimer]
    /\ current_timer = 0
    /\ event_types = {}
    /\ pc = [c \in Cores |-> "run"]
    /\ adv = [c \in Cores |-> NoAdvance]
    /\ fired = [c \in Cores |-> <<>>]
    /\ outcome = "ok"
    /\ removal = Removal("none", NullType, 0, 0, 0, 0)
    /\ ncalls = 0
    /\ mode = "any"

\* ------------------------------------------------------- Timer methods
\* Timer::GetTicks without the is_timer_sane test
GetTicksAlwaysExtrapolated(t) == t.executed_ticks + (t.slice_length - t.downcount)

\* Timer::GetTicks
GetTicks(t) ==
    IF ~t.is_timer_sane
    THEN t.executed_ticks + (t.slice_length - t.downcount)
    ELSE t.executed_ticks

\* Timer::AddTicks
AddTicks(t, ticks) == [t EXCEPT !.downcount = @ - ticks]

\* Timer::ForceExceptionCheck shrinking downcount and leaving slice_length
ForceExceptionCheckDowncountOnly(t, cycles) ==
    LET c == IF cycles < 0 THEN 0 ELSE cycles
    IN  IF t.downcount > c THEN [t EXCEPT !.downcount = c] ELSE t

\* Timer::ForceExceptionCheck
ForceExceptionCheck(t, cycles) ==
    LET c == IF cycles < 0 THEN 0 ELSE cycles
    IN  IF t.downcount > c
        THEN [t EXCEPT !.slice_length = @ - (t.downcount - c), !.downcount = c]
        ELSE t

\* Timer::MoveEvents
RECURSIVE MoveEvents(_)
MoveEvents(t) ==
    IF t.ts_queue = <<>> THEN t
    ELSE LET ev == [Head(t.ts_queue) EXCEPT !.fifo_order = t.event_fifo_id]
         IN  MoveEvents([t EXCEPT !.ts_queue = Tail(@),
                                  !.event_fifo_id = @ + 1,
                                  !.event_queue = PushHeap(@, ev)])

\* Timer::GetMaxSliceLength: std::find_if walks the vector from its front
GetMaxSliceLength(t) ==
    LET q == t.event_queue
        hits == {i \in 1 .. Len(q) : q[i].time - t.executed_ticks > 0}
    IN  IF hits # {}
        THEN LET first == CHOOSE i \in hits : \A j \in hits : i <= j
             IN  q[first].time - t.executed_ticks
        ELSE MAX_SLICE_LENGTH

\* Timer::Idle (idled_cycles is unsigned: kept as the integer it is congruent to)
Idle(t) == [t EXCEPT !.idled_cycles = @ + t.downcount, !.downcount = 0]

\* Timer::Advance entered without settling the cycles of the slice
AdvanceEnterClockStuck(t, max_slice_length) ==
    [MoveEvents(t) EXCEPT !.idled_cycles = 0,
                          !.slice_length = max_slice_length,
                          !.is_timer_sane = TRUE]

\* Timer::Advance up to the loop: lines 170-177
AdvanceEnter(t, max_slice_length) ==
    LET m == MoveEvents(t)
        cycles_executed == m.slice_length - m.downcount
    IN  [m EXCEPT !.idled_cycles = 0,
                  !.executed_ticks = @ + cycles_executed,
                  !.slice_length = max_slice_length,
                  !.is_timer_sane = TRUE]

\* the loop test of Timer::Advance taking an event one cycle before its time
LoopTestOneAhead(t) ==
    /\ t.event_queue # <<>>
    /\ t.event_queue[1].time <= t.executed_ticks + 1

\* the loop test of Timer::Advance
LoopTest(t) ==
    /\ t.event_queue # <<>>
    /\ t.event_queue[1].time <= t.executed_ticks

\* static_cast<int> of an s64: the value modulo 2^32 that lies in
\* [-2^31, 2^31). Where quantities are counted in cycles every number of the
\* model lies in that range and the cast returns it unchanged; in the wide
\* runs (mode "wide") quantities are counted in units of 2^30 cycles, the
\* range of int is [-2, 2) and the modulus is 4.
StaticCastInt(x) == IF mode = "wide" THEN ((x + 2) % 4) - 2 ELSE x

\* Timer::Advance after the loop: lines 186-194
AdvanceLeave(t, max_slice_length) ==
    LET front == t.event_queue[1].time - t.executed_ticks
        len == IF t.event_queue # <<>>
               THEN StaticCastInt(IF front < max_slice_length THEN front
                                                              ELSE max_slice_length)
               ELSE t.slice_length
    IN  [t EXCEPT !.is_timer_sane = FALSE, !.slice_length = len, !.downcount = len]

\* ---------------------------------------------------- manager operations
\* A thread can make a call when no ASSERT has ended the program and it is
\* either outside Advance or inside a callback that Advance invoked.
CanCall(th) == outcome = "ok" /\ pc[th] # "loop"

\* the failure branch of ASSERT / ASSERT_MSG: the program ends
AssertFails(what) ==
    /\ outcome' = what
    /\ UNCHANGED <<timers, current_timer, event_types, pc, adv, fired, removal>>

\* a null SharedTimer: the value std::unordered_map::operator[] inserts
NullTimer == [null |-> TRUE]

\* A null SharedTimer is dereferenced: undefined behaviour. The build ends
\* with a memory fault or does anything else; the run is followed no further.
Undefined ==
    /\ outcome' \in {"SIGSEGV", "undefined"}
    /\ UNCHANGED <<timers, current_timer, event_types, pc, adv, fired, removal>>

\* timers[core_id]: std::unordered_map::operator[] inserts a value-initialised
\* (null) SharedTimer under a key that the map does not hold
IndexTimers(ts, core_id) ==
    IF core_id \in DOMAIN ts THEN ts ELSE ts @@ (core_id :> NullTimer)

\* TimingManager::RegisterEvent
RegisterEvent(th, name) ==
    /\ CanCall(th)
    /\ IF name \in event_types
       THEN AssertFails("ASSERT: event is already registered")
       ELSE /\ event_types' = event_types \cup {name}
            /\ UNCHANGED <<timers, current_timer, pc, adv, fired, outcome, removal>>

\* the Timer ScheduleEvent resolves core_id to (lines 48-55)
ResolveTimer(core_id) == IF core_id = NoCore THEN current_timer ELSE core_id

\* ScheduleEvent forcing the early check inside Advance and not outside it
ScheduleOnForceWhenSane(t, direct, cycles_into_future, type, userdata) ==
    LET timeout == GetTicks(t) + cycles_into_future
    IN  IF direct
        THEN LET f == IF t.is_timer_sane
                      THEN ForceExceptionCheck(t, cycles_into_future)
                      ELSE t
             IN  [f EXCEPT !.event_queue =
                               PushHeap(@, Event(timeout, f.event_fifo_id, userdata, type)),
                           !.event_fifo_id = @ + 1]
        ELSE [t EXCEPT !.ts_queue = Append(@, Event(timeout, 0, userdata, type))]

\* ScheduleEvent pushing into the heap of whichever Timer it resolved
ScheduleOnHeapAlways(t, direct, cycles_into_future, type, userdata) ==
    [t EXCEPT !.event_queue =
                  PushHeap(@, Event(GetTicks(t) + cycles_into_future, t.event_fifo_id,
                                    userdata, type)),
              !.event_fifo_id = @ + 1]

\* what ScheduleEvent does to the resolved Timer (lines 57-69)
ScheduleOn(t, direct, cycles_into_future, type, userdata) ==
    LET timeout == GetTicks(t) + cycles_into_future
    IN  IF direct
        THEN LET f == IF ~t.is_timer_sane
                      THEN ForceExceptionCheck(t, cycles_into_future)
                      ELSE t
             IN  [f EXCEPT !.event_queue =
                               PushHeap(@, Event(timeout, f.event_fifo_id, userdata, type)),
                           !.event_fifo_id = @ + 1]
        ELSE [t EXCEPT !.ts_queue = Append(@, Event(timeout, 0, userdata, type))]

\* ScheduleEvent testing event_type only after the event has been pushed
ScheduleEventLateAssert(th, cycles_into_future, type, userdata, core_id) ==
    /\ CanCall(th)
    /\ IF core_id # NoCore /\ core_id \notin DOMAIN timers
       THEN AssertFails("ASSERT: timer_it != timers.end()")
       ELSE LET c == ResolveTimer(core_id)
            IN  /\ timers' = [timers EXCEPT ![c] =
                        ScheduleOn(@, current_timer = c, cycles_into_future, type, userdata)]
                /\ outcome' = (IF type = NullType THEN "ASSERT: event_type != nullptr"
                                                 ELSE outcome)
                /\ UNCHANGED <<current_timer, event_types, pc, adv, fired, removal>>

\* TimingManager::ScheduleEvent
ScheduleEvent(th, cycles_into_future, type, userdata, core_id) ==
    /\ CanCall(th)
    /\ IF type = NullType
       THEN AssertFails("ASSERT: event_type != nullptr")
       ELSE IF core_id # NoCore /\ core_id \notin DOMAIN timers
       THEN AssertFails("ASSERT: timer_it != timers.end()")
       ELSE IF timers[ResolveTimer(core_id)] = NullTimer
       THEN Undefined
       ELSE LET c == ResolveTimer(core_id)
            IN  /\ timers' = [timers EXCEPT ![c] =
                        ScheduleOn(@, current_timer = c, cycles_into_future, type, userdata)]
                /\ UNCHANGED <<current_timer, event_types, pc, adv, fired, outcome,
                               removal>>

\* number of events of a queue that a removal call's predicate selects
Count(q, type, userdata, both) ==
    Len(SelectSeq(q, LAMBDA e : Matches(e, type, userdata, both)))

RECURSIVE Sum(_, _)
Sum(f, S) ==
    IF S = {} THEN 0
    ELSE LET x == CHOOSE y \in S : TRUE IN f[x] + Sum(f, S \ {x})

\* the record of a removal call: kept when the call met a matching event
Noted(op, type, ud, both) ==
    LET heap == Sum([c \in Cores |-> Count(timers[c].event_queue, type, ud, both)], Cores)
        fifo == Sum([c \in Cores |-> Count(timers[c].ts_queue, type, ud, both)], Cores)
    IN  IF heap + fifo > 0 THEN Removal(op, type, ud, heap, fifo, ncalls + 1) ELSE removal

\* UnscheduleEvent erasing from the cross-thread queues as well
UnscheduleEventAndQueued(ts, type, userdata) ==
    [c \in DOMAIN ts |->
        [ts[c] EXCEPT !.event_queue = EraseIf(@, type, userdata, TRUE),
                      !.ts_queue = SelectSeq(@, LAMBDA e : ~Matches(e, type, userdata, TRUE))]]

\* UnscheduleEvent with RemoveEvent's predicate: the payload is not compared
UnscheduleEventAnyPayload(ts, type, userdata) ==
    [c \in DOMAIN ts |->
        [ts[c] EXCEPT !.event_queue = EraseIf(@, type, userdata, FALSE)]]

\* what UnscheduleEvent does to the timers map
UnscheduleEventFrom(ts, type, userdata) ==
    [c \in DOMAIN ts |->
        [ts[c] EXCEPT !.event_queue =
            EraseIf(@, type, userdata, TRUE)]]

\* TimingManager::UnscheduleEvent
UnscheduleEvent(th, type, userdata) ==
    /\ CanCall(th)
    /\ IF \E c \in DOMAIN timers : timers[c] = NullTimer
       THEN Undefined
       ELSE /\ timers' = UnscheduleEventFrom(timers, type, userdata)
            /\ removal' = Noted("UnscheduleEvent", type, userdata, TRUE)
            /\ UNCHANGED <<current_timer, event_types, pc, adv, fired, outcome>>

\* RemoveEvent erasing, in each heap, the first event of the type only
RemoveEventFirstMatch(ts, type) ==
    [c \in DOMAIN ts |->
        LET q == ts[c].event_queue
            hits == {i \in 1 .. Len(q) : q[i].type = type}
            first == CHOOSE i \in hits : \A j \in hits : i <= j
        IN  IF hits = {} THEN ts[c]
            ELSE [ts[c] EXCEPT !.event_queue =
                     MakeHeap(SubSeq(q, 1, first - 1) \o SubSeq(q, first + 1, Len(q)))]]

\* what RemoveEvent does to the timers map
RemoveEventFrom(ts, type) ==
    [c \in DOMAIN ts |->
        [ts[c] EXCEPT !.event_queue = EraseIf(@, type, 0, FALSE)]]

\* TimingManager::RemoveEvent
RemoveEvent(th, type) ==
    /\ CanCall(th)
    /\ IF \E c \in DOMAIN timers : timers[c] = NullTimer
       THEN Undefined
       ELSE /\ timers' = RemoveEventFrom(timers, type)
            /\ removal' = Noted("RemoveEvent", type, 0, FALSE)
            /\ UNCHANGED <<current_timer, event_types, pc, adv, fired, outcome>>

\* TimingManager::SetCurrentTimer, called by thread th
SetCurrentTimerBy(th, core_id) ==
    /\ CanCall(th)
    /\ timers' = IndexTimers(timers, core_id)
    /\ current_timer' = core_id
    /\ UNCHANGED <<event_types, pc, adv, fired, outcome, removal>>

\* TimingManager::SetCurrentTimer, called by the thread that runs core_id
SetCurrentTimer(core_id) == SetCurrentTimerBy(core_id, core_id)

\* TimingManager::GetTimer, called by thread th
GetTimer(th, cpu_id) ==
    /\ CanCall(th)
    /\ timers' = IndexTimers(timers, cpu_id)
    /\ UNCHANGED <<current_timer, event_types, pc, adv, fired, outcome, removal>>

\* ------------------------------------------- the owning thread of core c
\* Timer::AddTicks from the CPU loop
Consume(c, ticks) ==
    /\ outcome = "ok" /\ pc[c] = "run"
    /\ timers' = [timers EXCEPT ![c] = AddTicks(@, ticks)]
    /\ UNCHANGED <<current_timer, event_types, pc, adv, fired, outcome, removal>>

\* Timer::Idle from the CPU loop
IdleCore(c) ==
    /\ outcome = "ok" /\ pc[c] = "run"
    /\ timers' = [timers EXCEPT ![c] = Idle(@)]
    /\ UNCHANGED <<current_timer, event_types, pc, adv, fired, outcome, removal>>

\* Timer::ForceExceptionCheck called directly
ForceCheck(c, cycles) ==
    /\ outcome = "ok" /\ pc[c] = "run"
    /\ timers' = [timers EXCEPT ![c] = ForceExceptionCheck(@, cycles)]
    /\ UNCHANGED <<current_timer, event_types, pc, adv, fired, outcome, removal>>

\* Timer::Advance, entry to the first loop test
AdvanceBegin(c, max_slice_length) ==
    /\ outcome = "ok" /\ pc[c] = "run"
    /\ timers' = [timers EXCEPT ![c] = AdvanceEnter(@, max_slice_length)]
    /\ pc' = [pc EXCEPT ![c] = "loop"]
    /\ adv' = [adv EXCEPT ![c] = max_slice_length]
    /\ UNCHANGED <<current_timer, event_types, fired, outcome, removal>>

\* what a callback is invoked with and what it can read: the event, the
\* cycles_late argument and Timer::GetTicks of the firing Timer
Fired(t, evt) ==
    [time |-> evt.time, fifo_order |-> evt.fifo_order, userdata |-> evt.userdata,
     type |-> evt.type, late |-> t.executed_ticks - evt.time, ticks |-> GetTicks(t)]

\* one iteration of the loop of Timer::Advance, up to the callback's entry
Fire(c) ==
    /\ outcome = "ok" /\ pc[c] \in {"loop", "cb"}
    /\ LoopTest(timers[c])
    /\ LET evt == timers[c].event_queue[1]
       IN  /\ timers' = [timers EXCEPT ![c].event_queue = PopHeap(@)]
           /\ fired' = [fired EXCEPT ![c] = Append(@, Fired(timers'[c], evt))]
    /\ pc' = [pc EXCEPT ![c] = "cb"]
    /\ UNCHANGED <<current_timer, event_types, adv, outcome, removal, ncalls, mode>>

\* Timer::Advance, from the failing loop test to the return
AdvanceEnd(c) ==
    /\ outcome = "ok" /\ pc[c] \in {"loop", "cb"}
    /\ ~LoopTest(timers[c])
    /\ timers' = [timers EXCEPT ![c] = AdvanceLeave(@, adv[c])]
    /\ pc' = [pc EXCEPT ![c] = "run"]
    /\ adv' = [adv EXCEPT ![c] = NoAdvance]
    /\ UNCHANGED <<current_timer, event_types, fired, outcome, removal, ncalls, mode>>

\* ------------------------------------------- the manager and its callers
\* event types are registered during initialisation, before anything else
Initialising == event_types # Names

Register(th, name) ==
    /\ Initialising
    /\ RegisterEvent(th, name)
    /\ UNCHANGED <<ncalls, mode>>

\* one more call, out of the MaxCalls of a run
Call == ~Initialising /\ ncalls < MaxCalls /\ ncalls' = ncalls + 1 /\ UNCHANGED mode

Next ==
    \/ \E th \in Cores, name \in Names : Register(th, name)
    \/ \E th \in Cores, cyc \in Cycles, k \in Kinds \cup {<<NullType, 7>>},
          core_id \in Cores \cup {NoCore, BadCore} :
            Call /\ ScheduleEvent(th, cyc, k[1], k[2], core_id)
    \/ \E th \in Cores, type \in Names, ud \in Userdata :
            Call /\ UnscheduleEvent(th, type, ud)
    \/ \E th \in Cores, type \in Names : Call /\ RemoveEvent(th, type)
    \/ \E c \in Cores : Call /\ SetCurrentTimer(c)
    \/ \E c \in Cores, ticks \in Ticks : Call /\ Consume(c, ticks)
    \/ \E c \in Cores, m \in SliceArgs : Call /\ AdvanceBegin(c, m)
    \/ \E c \in Cores : Fire(c)
    \/ \E c \in Cores : AdvanceEnd(c)

Spec == Init /\ [][Next]_vars


\* --------------------------------------------- one core and its CPU loop
\* one more call, out of the MaxTimerCalls of a run
TimerCall ==
    ~Initialising /\ ncalls < MaxTimerCalls /\ ncalls' = ncalls + 1 /\ UNCHANGED mode

\* Core 0 is the current core; its thread schedules on its own Timer and
\* drives it through every Timer method.
NextTimer ==
    \/ \E name \in Names : Register(0, name)
    \/ \E cyc \in TimerCycles : TimerCall /\ ScheduleEvent(0, cyc, 1, 7, NoCore)
    \/ \E ticks \in Ticks : TimerCall /\ Consume(0, ticks)
    \/ TimerCall /\ IdleCore(0)
    \/ \E cyc \in TimerCycles : TimerCall /\ ForceCheck(0, cyc)
    \/ \E m \in SliceArgs : TimerCall /\ AdvanceBegin(0, m)
    \/ Fire(0)
    \/ AdvanceEnd(0)

SpecTimer == Init /\ [][NextTimer]_vars

\* ----------------------------------- one core, payloads that tell the sign
\* the caller's payload says whether the event was scheduled with a
\* cycles_into_future >= 0 (Userdata 7) or with a negative one (Userdata 8)
Ahead == 7

Behind == 8

SliceSchedule(cyc) ==
    /\ TimerCall
    /\ ScheduleEvent(0, cyc, 1, IF cyc >= 0 THEN Ahead ELSE Behind, NoCore)

\* NextTimer with the payload convention of SliceSchedule
NextSlice ==
    \/ \E name \in Names : Register(0, name)
    \/ \E cyc \in TimerCycles : SliceSchedule(cyc)
    \/ \E ticks \in Ticks : TimerCall /\ Consume(0, ticks)
    \/ TimerCall /\ IdleCore(0)
    \/ \E cyc \in TimerCycles : TimerCall /\ ForceCheck(0, cyc)
    \/ \E m \in SliceArgs : TimerCall /\ AdvanceBegin(0, m)
    \/ Fire(0)
    \/ AdvanceEnd(0)

SpecSlice == Init /\ [][NextSlice]_vars

\* ------------------------------- one core, quantities beyond the int range
\* The state after construction, read in units of 2^30 cycles. slice_length
\* and downcount start equal, and only their difference is read before the
\* first Advance overwrites them.
InitWide ==
    /\ timers = [c \in Cores |-> NewTimer]
    /\ current_timer = 0
    /\ event_types = {}
    /\ pc = [c \in Cores |-> "run"]
    /\ adv = [c \in Cores |-> NoAdvance]
    /\ fired = [c \in Cores |-> <<>>]
    /\ outcome = "ok"
    /\ removal = Removal("none", NullType, 0, 0, 0, 0)
    /\ ncalls = 0
    /\ mode = "wide"

\* Core 0 is the current core; its thread schedules events up to 3 * 2^30
\* cycles ahead, consumes 2^30 or 2^31 cycles at a time and calls Advance
\* with a max_slice_length of 2^30 or 2^31 cycles.
NextWide ==
    \/ \E name \in Names : Register(0, name)
    \/ \E cyc \in TimerCycles : TimerCall /\ ScheduleEvent(0, cyc, 1, 7, NoCore)
    \/ \E ticks \in Ticks : TimerCall /\ Consume(0, ticks)
    \/ \E m \in SliceArgs : TimerCall /\ AdvanceBegin(0, m)
    \/ Fire(0)
    \/ AdvanceEnd(0)

SpecWide == InitWide /\ [][NextWide]_vars

\* ------------------------------------ the manager's calls, any core id
\* The threads call the manager with core ids that the constructor created
\* and with one that it did not.
NextMap ==
    \/ \E th \in Cores, name \in Names : Register(th, name)
    \/ \E th \in Cores, core_id \in Cores \cup {BadCore} :
            Call /\ SetCurrentTimerBy(th, core_id)
    \/ \E th \in Cores, cpu_id \in Cores \cup {BadCore} : Call /\ GetTimer(th, cpu_id)
    \/ \E th \in Cores, cyc \in Cycles, core_id \in Cores \cup {NoCore, BadCore} :
            Call /\ ScheduleEvent(th, cyc, 1, 7, core_id)
    \/ \E th \in Cores : Call /\ UnscheduleEvent(th, 1, 7)
    \/ \E th \in Cores : Call /\ RemoveEvent(th, 1)

SpecMap == Init /\ [][NextMap]_vars

\* ------------------------------------------- schedule, then only run
\* events of core 0's Timer, in its heap or on their way to it
Pending(t) == Len(t.event_queue) + Len(t.ts_queue)

\* virtual time of a Timer, whether or not it is inside Advance
Clock(t) == t.executed_ticks + (IF pc[0] = "run" THEN t.slice_length - t.downcount ELSE 0)

\* ScheduleEvent calls for core 0, from the thread of the current core or of
\* another one, until the first Consume or Advance that follows them
OrderSchedule(cyc, k) ==
    /\ ~Initialising /\ mode \in {"any", "sched"}
    /\ Pending(timers[0]) < MaxOrderEvents
    /\ ScheduleEvent(0, cyc, k[1], k[2], 0)
    /\ mode' = "sched"
    /\ UNCHANGED ncalls

OrderSetCurrent(c) ==
    /\ ~Initialising /\ mode \in {"any", "sched"}
    /\ SetCurrentTimer(c)
    /\ UNCHANGED <<ncalls, mode>>

\* after the first event, Consume and Advance end the scheduling for good
Running == mode' = (IF mode = "any" THEN "any" ELSE "run") /\ UNCHANGED ncalls

OrderConsume(ticks) ==
    /\ ~Initialising
    /\ Clock(timers[0]) + ticks <= MaxOrderTime
    /\ Consume(0, ticks)
    /\ Running

OrderAdvance(m) ==
    /\ ~Initialising
    /\ AdvanceBegin(0, m)
    /\ Running

NextOrder ==
    \/ \E name \in Names : Register(0, name)
    \/ \E cyc \in TimerCycles : OrderSchedule(cyc, <<1, 7>>)
    \/ \E c \in Cores : OrderSetCurrent(c)
    \/ \E ticks \in Ticks : OrderConsume(ticks)
    \/ \E m \in SliceArgs : OrderAdvance(m)
    \/ Fire(0)
    \/ AdvanceEnd(0)

SpecOrder == Init /\ [][NextOrder]_vars


\* ----------------------------- schedule, then run for ever, a small run
\* OrderSchedule with at most MaxLiveEvents events waiting
LiveSchedule(cyc) ==
    /\ ~Initialising /\ mode \in {"any", "sched"}
    /\ Pending(timers[0]) < MaxLiveEvents
    /\ ScheduleEvent(0, cyc, 1, 7, 0)
    /\ mode' = "sched"
    /\ UNCHANGED ncalls

\* OrderConsume up to MaxLiveTime
LiveConsume(ticks) ==
    /\ ~Initialising
    /\ Clock(timers[0]) + ticks <= MaxLiveTime
    /\ Consume(0, ticks)
    /\ Running

NextLive ==
    \/ \E name \in Names : Register(0, name)
    \/ \E cyc \in TimerCycles : LiveSchedule(cyc)
    \/ \E c \in Cores : OrderSetCurrent(c)
    \/ \E ticks \in Ticks : LiveConsume(ticks)
    \/ \E m \in SliceArgs : OrderAdvance(m)
    \/ Fire(0)
    \/ AdvanceEnd(0)

\* The owning core keeps consuming cycles and calling Advance, and an
\* Advance that has been entered runs to its return.
SpecLive ==
    /\ Init /\ [][NextLive]_vars
    /\ SF_vars(\E ticks \in Ticks : LiveConsume(ticks))
    /\ WF_vars(\E m \in SliceArgs : OrderAdvance(m))
    /\ WF_vars(Fire(0))
    /\ WF_vars(AdvanceEnd(0))

\* ================================================================ claims
\* the order of Event::operator<, written out
Before(a, b) ==
    \/ a.time < b.time
    \/ a.time = b.time /\ a.fifo_order < b.fifo_order

\* C1: when ScheduleEvent calls on one Timer are followed only by AddTicks
\* and Advance calls, the callbacks fire in non-decreasing deadline order,
\* and events with equal deadlines fire in ascending fifo_order.
C1_FireOrder ==
    \A i, j \in 1 .. Len(fired[0]) :
        i < j => Before(fired[0][i], fired[0][j])

\* every deadline is covered; three callbacks at least have fired, two of
\* them with equal deadlines and two with different ones
C1_Witness ==
    /\ mode = "run" /\ pc[0] = "run"
    /\ Pending(timers[0]) = 0
    /\ Len(fired[0]) >= 3
    /\ \E i, j \in 1 .. Len(fired[0]) : i < j /\ fired[0][i].time = fired[0][j].time
    /\ \E i, j \in 1 .. Len(fired[0]) : i < j /\ fired[0][i].time < fired[0][j].time

\* the min-heap property of a vector over (time, fifo_order)
IsMinHeap(q) ==
    /\ \A i \in 2 .. Len(q) : ~Before(q[i], q[i \div 2])
    /\ \A i \in 2 .. Len(q) : Before(q[1], q[i])

\* C2: after any sequence of ScheduleEvent, UnscheduleEvent, RemoveEvent and
\* Advance calls, also from inside callbacks, every Timer's event_queue is a
\* min-heap over (time, fifo_order) and its front is the minimum.
C2_HeapProperty == \A c \in Cores : IsMinHeap(timers[c].event_queue)

\* a Timer inside a callback whose heap holds two events or more
C2_Witness ==
    \E c \in Cores : pc[c] = "cb" /\ Len(timers[c].event_queue) >= 2

\* distances from executed_ticks to the heap events that lie strictly after it
FutureDistances(t) ==
    {d \in {t.event_queue[i].time - t.executed_ticks : i \in 1 .. Len(t.event_queue)} :
        d > 0}

\* C3: in every reachable Timer state GetMaxSliceLength returns no more than
\* the distance to the nearest heap event whose deadline is strictly greater
\* than executed_ticks, also when the heap holds events that are already due.
C3_NearestFuture ==
    \A c \in Cores : \A d \in FutureDistances(timers[c]) :
        GetMaxSliceLength(timers[c]) <= d

\* C4: in every reachable Timer state GetMaxSliceLength returns at most
\* MAX_SLICE_LENGTH, also when every pending event lies further away.
C4_AtMostMax ==
    \A c \in Cores : GetMaxSliceLength(timers[c]) <= MAX_SLICE_LENGTH

\* C5: GetTicks called from inside a callback that Advance fired equals the
\* deadline of the event being fired, for every fired event and every
\* amount of cycles consumed before the Advance.
C5_TicksEqualDeadline ==
    \A c \in Cores : \A i \in 1 .. Len(fired[c]) :
        fired[c][i].ticks = fired[c][i].time

\* C5, as the code has it: GetTicks called from inside a callback equals
\* executed_ticks, the deadline of the event plus the cycles_late handed to
\* the callback, and cycles_late is never negative
C5_TicksEqualDeadlinePlusLate ==
    \A c \in Cores : \A i \in 1 .. Len(fired[c]) :
        /\ fired[c][i].ticks = fired[c][i].time + fired[c][i].late
        /\ fired[c][i].late >= 0

\* a callback fired late, after a slice in which cycles were consumed, and
\* another one fired on its deadline
C5_Witness ==
    \E c \in Cores : \E i, j \in 1 .. Len(fired[c]) :
        /\ fired[c][i].late > 0
        /\ fired[c][j].late = 0
        /\ timers[c].executed_ticks > 0

\* the events of a queue, as a set
Events(q) == {q[i] : i \in 1 .. Len(q)}

\* a ScheduleEvent call for core c, not the current one, only appends the
\* event to the cross-thread queue of c's Timer
OnlyAppends(cyc, type, userdata, c) ==
    /\ timers'[c].ts_queue =
            Append(timers[c].ts_queue, Event(GetTicks(timers[c]) + cyc, 0, userdata, type))
    /\ timers' = [timers EXCEPT ![c].ts_queue = timers'[c].ts_queue]

\* the step of core c that takes events out of its cross-thread queue is the
\* entry of Advance; it moves them all to the heap, numbered from
\* event_fifo_id on, above every event the heap has held
MergedByAdvance(c) ==
    LET t == timers[c]
        n == Len(t.ts_queue)
        moved == {[t.ts_queue[k] EXCEPT !.fifo_order = t.event_fifo_id + k - 1] : k \in 1 .. n}
    IN  /\ pc[c] = "run" /\ pc'[c] = "loop"
        /\ timers'[c].ts_queue = <<>>
        /\ timers'[c].event_fifo_id = t.event_fifo_id + n
        /\ Len(timers'[c].event_queue) = Len(t.event_queue) + n
        /\ Events(timers'[c].event_queue) = Events(t.event_queue) \cup moved
        /\ \A e \in Events(t.event_queue) \cup Events(fired[c]) :
               \A m \in moved : e.fifo_order < m.fifo_order

\* C6: a ScheduleEvent call that resolves to a Timer other than the current
\* one leaves that Timer's event_queue and event_fifo_id unchanged and only
\* appends to its ts_queue; the event enters the heap only in that Timer's
\* next Advance (MoveEvents), with a fifo_order taken from event_fifo_id at
\* that time, larger than that of every event admitted to the heap before.
C6_CrossThreadSchedule ==
    [][/\ \A c \in Cores \ {current_timer} :
             \A th \in Cores, cyc \in Cycles, k \in Kinds :
                 ScheduleEvent(th, cyc, k[1], k[2], c) => OnlyAppends(cyc, k[1], k[2], c)
       /\ \A c \in Cores :
             /\ Len(timers'[c].ts_queue) < Len(timers[c].ts_queue) => MergedByAdvance(c)
             /\ (c # current_timer
                   /\ Events(timers'[c].event_queue) \ Events(timers[c].event_queue) # {})
                 => MergedByAdvance(c)]_vars

\* a Timer that is not the current one holds two merged events in its heap
\* and a third one, scheduled after the merge, in its cross-thread queue
C6_Witness ==
    \E c \in Cores \ {current_timer} :
        /\ pc[c] = "run"
        /\ Len(timers[c].ts_queue) = 1
        /\ Len(timers[c].event_queue) = 2
        /\ timers[c].event_fifo_id = 2
        /\ ncalls = 4

\* what an UnscheduleEvent(type, userdata) step does to the Timer of core c:
\* the heap loses the events of that type and payload and no other, and
\* nothing else of the Timer changes
ExactlyMatching(c, type, userdata) ==
    LET q == timers[c].event_queue
        q2 == timers'[c].event_queue
        gone == {e \in Events(q) : e.type = type /\ e.userdata = userdata}
    IN  /\ Events(q2) = Events(q) \ gone
        /\ Len(q2) = Len(q) - Cardinality(gone)
        /\ timers'[c] = [timers[c] EXCEPT !.event_queue = q2]

\* C7: UnscheduleEvent(type, userdata) removes from every Timer's heap
\* exactly the events whose type and userdata both match and leaves every
\* other heap event present with unchanged time, fifo_order and userdata;
\* the clock fields of every Timer are unchanged.
C7_UnscheduleExact ==
    [][\A th \in Cores, type \in Names, ud \in Userdata :
          UnscheduleEvent(th, type, ud) =>
              \A c \in Cores : ExactlyMatching(c, type, ud)]_vars

\* the last call was an UnscheduleEvent that found its events in a heap, and
\* an event of the same type with another payload is still in a heap
C7_Witness ==
    /\ removal.op = "UnscheduleEvent" /\ removal.heap > 0 /\ removal.call = ncalls
    /\ \E c \in Cores : \E e \in Events(timers[c].event_queue) :
           e.type = removal.type /\ e.userdata # removal.ud

\* C8: RemoveEvent(type) is idempotent: in every reachable state, for every
\* type, two calls in a row leave every Timer (heap, cross-thread queue,
\* clock fields) as one call leaves it.
C8_RemoveIdempotent ==
    \A type \in Names :
        RemoveEventFrom(RemoveEventFrom(timers, type), type) = RemoveEventFrom(timers, type)

\* the last call was a RemoveEvent that erased two events or more and left
\* events of another type in a heap
C8_Witness ==
    /\ removal.op = "RemoveEvent" /\ removal.heap >= 2 /\ removal.call = ncalls
    /\ \E c \in Cores : timers[c].event_queue # <<>>

\* what a callback is shown of event e
SameEvent(f, e) ==
    /\ f.time = e.time /\ f.fifo_order = e.fifo_order
    /\ f.userdata = e.userdata /\ f.type = e.type

\* an event leaves the heap of core c in a step only when Advance fires it
\* or when the step is an UnscheduleEvent or RemoveEvent call that selects it
LeavesByFiringOrRemoval(c, e) ==
    \/ /\ Len(fired'[c]) = Len(fired[c]) + 1
       /\ SameEvent(fired'[c][Len(fired'[c])], e)
    \/ \E th \in Cores : UnscheduleEvent(th, e.type, e.userdata)
    \/ \E th \in Cores : RemoveEvent(th, e.type)

\* C9: UnscheduleEvent and RemoveEvent do not touch any Timer's ts_queue; an
\* event waiting there survives the call, is moved to the heap by that
\* Timer's next Advance, and is fired once its deadline is reached: it
\* leaves the heap only by being fired or by a later removal call, and
\* Advance returns with no event in the heap whose deadline has been reached.
C9_QueuedSurvive ==
    [][/\ \A th \in Cores, type \in Names :
             (RemoveEvent(th, type) \/ \E ud \in Userdata : UnscheduleEvent(th, type, ud))
                 => \A c \in Cores : timers'[c].ts_queue = timers[c].ts_queue
       /\ \A c \in Cores :
             /\ (timers[c].ts_queue # <<>> /\ pc[c] = "run" /\ pc'[c] = "loop")
                    => MergedByAdvance(c)
             /\ \A e \in Events(timers[c].event_queue) \ Events(timers'[c].event_queue) :
                    LeavesByFiringOrRemoval(c, e)
             /\ (pc[c] # "run" /\ pc'[c] = "run")
                    => \A e \in Events(timers'[c].event_queue) :
                           e.time > timers'[c].executed_ticks]_vars

\* the only event scheduled was in a cross-thread queue when a removal call
\* that selects it was made, and its callback has fired since
C9_Witness ==
    /\ removal.fifo = 1 /\ removal.heap = 0 /\ removal.call = 2 /\ ncalls = 3
    /\ \E c \in Cores : \E i \in 1 .. Len(fired[c]) :
           /\ fired[c][i].type = removal.type
           /\ removal.op = "UnscheduleEvent" => fired[c][i].userdata = removal.ud

\* the call ended in the failed assertion and changed nothing else
FatalAndNothingChanged ==
    /\ outcome' # "ok"
    /\ UNCHANGED <<timers, current_timer, event_types, pc, adv, fired>>

\* C10: usage errors are fatal and mutate nothing: RegisterEvent with a name
\* that is already registered, ScheduleEvent with a null event type, and
\* ScheduleEvent with an explicit core id that has no Timer each end in the
\* failed assertion before the registry or any Timer's heap, cross-thread
\* queue, event_fifo_id or clock fields are changed; nothing runs afterwards.
C10_UsageErrorsFatal ==
    [][/\ \A th \in Cores, name \in event_types :
             RegisterEvent(th, name) => FatalAndNothingChanged
       /\ \A th \in Cores, cyc \in Cycles, ud \in Userdata,
               core_id \in Cores \cup {NoCore, BadCore} :
             ScheduleEvent(th, cyc, NullType, ud, core_id) => FatalAndNothingChanged
       /\ \A th \in Cores, cyc \in Cycles, k \in Kinds :
             ScheduleEvent(th, cyc, k[1], k[2], BadCore) => FatalAndNothingChanged
       /\ outcome' # outcome => outcome = "ok" /\ FatalAndNothingChanged
       /\ outcome # "ok" => UNCHANGED vars]_vars

\* a ScheduleEvent call has failed its assertion with events pending in a
\* heap and in a cross-thread queue
C10_Witness ==
    /\ outcome \in {"ASSERT: event_type != nullptr", "ASSERT: timer_it != timers.end()"}
    /\ \E c \in Cores : timers[c].event_queue # <<>>
    /\ \E c \in Cores : timers[c].ts_queue # <<>>

\* C11: downcount <= slice_length in every state of a Timer that a caller can
\* observe: between calls, inside the callbacks that Advance invokes, and
\* after Idle or ForceExceptionCheck, for every max_slice_length.
C11_DowncountWithinSlice ==
    \A c \in Cores :
        pc[c] \in {"run", "cb"} => timers[c].downcount <= timers[c].slice_length

\* C12: with one owning thread per core, a ScheduleEvent call made by a thread
\* that does not own the Timer it resolves to never writes that Timer's
\* event_queue or event_fifo_id (it only pushes to ts_queue), whatever
\* SetCurrentTimer calls the threads have interleaved with it.
C12_OnlyOwnerWritesHeap ==
    [][\A th \in Cores, cyc \in Cycles, k \in Kinds, core_id \in Cores \cup {NoCore} :
          ScheduleEvent(th, cyc, k[1], k[2], core_id) =>
              \A c \in Cores \ {th} :
                  /\ timers'[c].event_queue = timers[c].event_queue
                  /\ timers'[c].event_fifo_id = timers[c].event_fifo_id]_vars

\* C13: no event fires early: every callback that Advance invokes is handed
\* cycles_late = executed_ticks - deadline, and that value is >= 0, whatever
\* was scheduled (negative cycles_into_future, events scheduled by callbacks
\* of the same Advance) and consumed before.
C13_NeverEarly ==
    \A c \in Cores : \A i \in 1 .. Len(fired[c]) :
        /\ fired[c][i].late >= 0
        /\ fired[c][i].late = fired[c][i].ticks - fired[c][i].time

\* one Advance has fired an event scheduled with a negative
\* cycles_into_future, late, and an event exactly on its deadline
C13_Witness ==
    \E c \in Cores : \E i, j \in 1 .. Len(fired[c]) :
        /\ fired[c][i].time < 0 /\ fired[c][i].late > 0
        /\ fired[c][j].time > 0 /\ fired[c][j].late = 0
        /\ fired[c][i].ticks = fired[c][j].ticks

\* a Timer is mid-slice between the return of Advance and the next call
MidSlice(c) == pc[c] = "run" /\ ~timers[c].is_timer_sane

\* C14: no deadline is skipped by a too-long slice: whenever a Timer is
\* mid-slice, executed_ticks + slice_length is at most the deadline of every
\* heap event that was scheduled with cycles_into_future >= 0; Advance
\* establishes it and the direct path of ScheduleEvent keeps it through
\* ForceExceptionCheck.
C14_SliceEndsBeforeDeadlines ==
    \A c \in Cores :
        MidSlice(c) =>
            \A e \in Events(timers[c].event_queue) :
                e.userdata = Ahead =>
                    timers[c].executed_ticks + timers[c].slice_length <= e.time

\* mid-slice, the heap holds an event scheduled ahead, on which the slice
\* ends, and one scheduled behind, which the slice end has passed
C14_Witness ==
    \E c \in Cores :
        /\ MidSlice(c)
        /\ \E e \in Events(timers[c].event_queue) :
              /\ e.userdata = Ahead
              /\ e.time = timers[c].executed_ticks + timers[c].slice_length
        /\ \E e \in Events(timers[c].event_queue) :
              /\ e.userdata = Behind
              /\ e.time < timers[c].executed_ticks + timers[c].slice_length

\* Timer f with one more event in its heap, numbered event_fifo_id
Pushed(f, timeout, type, userdata) ==
    [f EXCEPT !.event_queue = PushHeap(@, Event(timeout, f.event_fifo_id, userdata, type)),
              !.event_fifo_id = @ + 1]

\* C15: a ScheduleEvent that resolves to the current Timer while that Timer
\* is inside the firing loop of Advance (called from a callback) calls
\* ForceExceptionCheck(cycles_into_future) before it pushes the event.
C15_ForcedInsideLoop ==
    [][\A th \in Cores, cyc \in Cycles, k \in Kinds, core_id \in {current_timer, NoCore} :
          (pc[current_timer] = "cb" /\ ScheduleEvent(th, cyc, k[1], k[2], core_id)) =>
              LET t == timers[current_timer]
              IN  timers'[current_timer] =
                      Pushed(ForceExceptionCheck(t, cyc), GetTicks(t) + cyc, k[1], k[2])]_vars

\* C15, as the code has it: a ScheduleEvent that resolves to the current
\* Timer calls ForceExceptionCheck(cycles_into_future) before the push when
\* the Timer is mid-slice (is_timer_sane false); called from a callback in
\* the firing loop of Advance (is_timer_sane true) it pushes the event and
\* leaves slice_length and downcount as they are.
C15_ForcedMidSliceOnly ==
    [][\A th \in Cores, cyc \in Cycles, k \in Kinds, core_id \in {current_timer, NoCore} :
          ScheduleEvent(th, cyc, k[1], k[2], core_id) =>
              LET t == timers[current_timer]
              IN  /\ pc[current_timer] = "cb" =>
                        /\ t.is_timer_sane
                        /\ timers'[current_timer] = Pushed(t, GetTicks(t) + cyc, k[1], k[2])
                  /\ MidSlice(current_timer) =>
                        timers'[current_timer] =
                            Pushed(ForceExceptionCheck(t, cyc), GetTicks(t) + cyc, k[1], k[2])]_vars

\* a callback of the current Timer, run after a Consume, has scheduled an
\* event one cycle back while downcount still was positive
C15_Witness ==
    LET t == timers[current_timer]
        f == fired[current_timer]
    IN  /\ pc[current_timer] = "cb" /\ ncalls = 4
        /\ t.executed_ticks >= 1 /\ t.downcount > 0
        /\ \E e \in Events(t.event_queue) :
              e.time = t.executed_ticks - 1 /\ e.fifo_order > f[Len(f)].fifo_order

\* the smaller of two numbers
Min(a, b) == IF a < b THEN a ELSE b

\* what the caller of Advance(adv[c]) finds when it returns
AdvanceReturned(c) ==
    LET t == timers'[c]
    IN  /\ \A e \in Events(t.event_queue) : e.time > t.executed_ticks
        /\ t.idled_cycles = 0
        /\ t.slice_length =
              (IF t.event_queue # <<>>
               THEN Min(t.event_queue[1].time - t.executed_ticks, adv[c])
               ELSE adv[c])
        /\ t.downcount = t.slice_length

\* C16: when Advance(max_slice_length) returns, the events that were in
\* ts_queue at entry have left it, no heap event has time <= executed_ticks,
\* idled_cycles is 0, slice_length is min(front.time - executed_ticks,
\* max_slice_length) if the heap is not empty and max_slice_length
\* otherwise, and downcount equals slice_length.
C16_AdvancePostcondition ==
    [][\A c \in Cores :
          /\ (pc[c] = "run" /\ pc'[c] = "loop") => timers'[c].ts_queue = <<>>
          /\ (pc[c] # "run" /\ pc'[c] = "run") => AdvanceReturned(c)]_vars

\* the events of core 0's Timer that have not fired, in its heap or on their
\* way to it
Waiting == Events(timers[0].event_queue) \cup Events(timers[0].ts_queue)

\* no event is fired twice: the events admitted to the heap are numbered
\* 0 .. event_fifo_id - 1, and each is in the heap or in the callback log
FiredOnce ==
    /\ \A i, j \in 1 .. Len(fired[0]) : i < j => fired[0][i].fifo_order # fired[0][j].fifo_order
    /\ Len(fired[0]) + Len(timers[0].event_queue) = timers[0].event_fifo_id
    /\ \A n \in 0 .. timers[0].event_fifo_id - 1 :
          \/ \E i \in 1 .. Len(fired[0]) : fired[0][i].fifo_order = n
          \/ \E e \in Events(timers[0].event_queue) : e.fifo_order = n

\* no event is dropped: a step keeps the callback log and only adds to it,
\* and an event that stops waiting has been fired in that step
NoneDropped ==
    /\ Len(fired'[0]) >= Len(fired[0])
    /\ SubSeq(fired'[0], 1, Len(fired[0])) = fired[0]
    /\ Pending(timers'[0]) + Len(fired'[0]) >= Pending(timers[0]) + Len(fired[0])

\* C17: every event that ScheduleEvent accepted, through the direct path or
\* through ts_queue, and that no UnscheduleEvent or RemoveEvent matched,
\* fires exactly once: it is never fired twice or dropped, and if the owning
\* core keeps consuming cycles and calling Advance, the callbacks of the
\* events whose deadlines the run reaches are eventually invoked.
C17_FiresExactlyOnce ==
    /\ []FiredOnce
    /\ [][NoneDropped]_vars
    /\ (mode = "run" /\ \A e \in Waiting : e.time <= MaxLiveTime) ~> (Waiting = {})

\* scheduling is over, every accepted event has fired, one of them late, and
\* the Timer was not the current one at the end
C17_Witness ==
    /\ mode = "run" /\ pc[0] = "run" /\ current_timer # 0
    /\ Waiting = {}
    /\ Len(fired[0]) = timers[0].event_fifo_id /\ Len(fired[0]) >= 2
    /\ \E i \in 1 .. Len(fired[0]) : fired[0][i].late > 0

\* C18: the set of core ids in the timers map is fixed at construction and
\* every entry refers to a live Timer: no sequence of public calls, with
\* SetCurrentTimer or GetTimer given a core id that the constructor did not
\* create among them, adds or removes an entry or makes current_timer refer
\* to no Timer.
C18_TimersFixed ==
    /\ DOMAIN timers = Cores
    /\ \A c \in DOMAIN timers : timers[c] # NullTimer
    /\ current_timer \in Cores

\* C19: between two consecutive Advance calls downcount never increases:
\* each of AddTicks, Idle, ForceExceptionCheck and ScheduleEvent, called on
\* a Timer that is mid-slice, leaves downcount equal or smaller, Idle after
\* AddTicks has driven downcount below zero included.
C19_DowncountNeverIncreases ==
    [][MidSlice(0) /\ pc'[0] = "run"
        => timers'[0].downcount <= timers[0].downcount]_vars

\* C20: the virtual time of a Timer never goes backwards: every step taken
\* while the Timer is mid-slice or inside Advance (AddTicks, Idle,
\* ForceExceptionCheck, ScheduleEvent, the entry to Advance, each callback,
\* the return of Advance) leaves GetTicks equal or larger.
C20_ClockMonotone ==
    [][MidSlice(0) \/ pc[0] # "run"
        => GetTicks(timers'[0]) >= GetTicks(timers[0])]_vars

====
